---- MODULE Spec2Model ----
(***************************************************************************)
(* Model of conda_build/environ.py: git provenance verification            *)
(* (verify_git_repo), git metadata extraction (get_git_info), the layered  *)
(* build environment (get_dict and its stages) and the activation diff     *)
(* (_set_environ_from_subprocess_values).                                  *)
(*                                                                         *)
(* A Python string is a sequence of atoms.  An atom is a TLA+ string that  *)
(* stands for one character or for a run of characters that contains none *)
(* of the separators the code looks for (whitespace, newline, "-", "=",    *)
(* "/", "\\").  The separators are atoms of their own, so splitting,       *)
(* stripping, concatenation and case folding are computed on the sequence *)
(* the way Python computes them on the characters.                         *)
(***************************************************************************)
EXTENDS Integers, Sequences, FiniteSets, TLC

VARIABLES platform, bits, PY3, environ, pc, call, ret

vars == <<platform, bits, PY3, environ, pc, call, ret>>

(***************************************************************************)
(* Bounds of the model.                                                    *)
(***************************************************************************)
\* lines in one environment dump of the activation subprocess
MaxLines == 2
\* atoms in one output of git describe
MaxDescribeLen == 6
\* largest recipe build number
MaxBuildNumber == 1

(***************************************************************************)
(* Python strings.                                                         *)
(***************************************************************************)
SP == " "
TAB == "tab"
NL == "nl"
BSL == "bsl"

Whitespace == {SP, TAB, NL}

\* str.lower() and str.upper() on the letters the model uses.
LowerAtom(a) ==
    CASE a = "U" -> "u"
      [] a = "R" -> "r"
      [] a = "O" -> "o"
      [] a = "C" -> "c"
      [] a = "DEBUG" -> "debug"
      [] a = "NOMKL" -> "nomkl"
      [] OTHER -> a

UpperAtom(a) ==
    CASE a = "u" -> "U"
      [] a = "r" -> "R"
      [] a = "o" -> "O"
      [] a = "c" -> "C"
      [] a = "debug" -> "DEBUG"
      [] a = "nomkl" -> "NOMKL"
      [] OTHER -> a

Lower(s) == [i \in 1..Len(s) |-> LowerAtom(s[i])]

Upper(s) == [i \in 1..Len(s) |-> UpperAtom(s[i])]

\* s[i:] and s[:i] with 1-based positions
From(s, i) == SubSeq(s, i, Len(s))

Upto(s, i) == SubSeq(s, 1, i)

RECURSIVE LStripSet(_, _)
LStripSet(s, chars) ==
    IF s # <<>> /\ Head(s) \in chars THEN LStripSet(Tail(s), chars) ELSE s

RECURSIVE RStripSet(_, _)
RStripSet(s, chars) ==
    IF s # <<>> /\ s[Len(s)] \in chars
    THEN RStripSet(Upto(s, Len(s) - 1), chars)
    ELSE s

\* str.strip(), str.rstrip()
Strip(s) == RStripSet(LStripSet(s, Whitespace), Whitespace)

RStrip(s) == RStripSet(s, Whitespace)

\* the positions of s that hold the atom sep
Positions(s, sep) == {i \in 1..Len(s) : s[i] = sep}

Min(S) == CHOOSE x \in S : \A y \in S : x <= y

Max(S) == CHOOSE x \in S : \A y \in S : x >= y

\* str.split(sep): every occurrence of sep separates two parts
RECURSIVE Split(_, _)
Split(s, sep) ==
    IF Positions(s, sep) = {}
    THEN <<s>>
    ELSE LET i == Min(Positions(s, sep))
         IN  <<Upto(s, i - 1)>> \o Split(From(s, i + 1), sep)

\* str.rsplit(sep, maxsplit): at most maxsplit splits, taken from the right
RECURSIVE RSplit(_, _, _)
RSplit(s, sep, maxsplit) ==
    IF maxsplit = 0 \/ Positions(s, sep) = {}
    THEN <<s>>
    ELSE LET i == Max(Positions(s, sep))
         IN  RSplit(Upto(s, i - 1), sep, maxsplit - 1) \o <<From(s, i + 1)>>

\* str.split() without argument: split on runs of whitespace, no empty parts
RECURSIVE SplitWS(_)
SplitWS(s) ==
    LET t == LStripSet(s, Whitespace)
    IN  IF t = <<>>
        THEN <<>>
        ELSE LET ws == {i \in 1..Len(t) : t[i] \in Whitespace}
             IN  IF ws = {}
                 THEN <<t>>
                 ELSE <<Upto(t, Min(ws) - 1)>> \o SplitWS(From(t, Min(ws)))

\* sep.join(parts)
RECURSIVE Join(_, _)
Join(parts, sep) ==
    IF parts = <<>> THEN <<>>
    ELSE IF Len(parts) = 1 THEN parts[1]
    ELSE parts[1] \o <<sep>> \o Join(Tail(parts), sep)

(***************************************************************************)
(* os.path.normpath.  posixpath drops empty and "." components and folds   *)
(* ".." into the component before it; ntpath first turns "/" into "\\".    *)
(***************************************************************************)
RECURSIVE NormComps(_, _, _)
NormComps(comps, acc, rooted) ==
    IF comps = <<>> THEN acc
    ELSE LET c == Head(comps)
         IN  IF c = <<>> \/ c = <<".">>
             THEN NormComps(Tail(comps), acc, rooted)
             ELSE IF \/ c # <<"..">>
                     \/ (~rooted /\ acc = <<>>)
                     \/ (acc # <<>> /\ acc[Len(acc)] = <<"..">>)
             THEN NormComps(Tail(comps), Append(acc, c), rooted)
             ELSE IF acc # <<>>
             THEN NormComps(Tail(comps), Upto(acc, Len(acc) - 1), rooted)
             ELSE NormComps(Tail(comps), acc, rooted)

NormWith(path, sep) ==
    LET rooted == path # <<>> /\ path[1] = sep
        body   == Join(NormComps(Split(path, sep), <<>>, rooted), sep)
        out    == (IF rooted THEN <<sep>> ELSE <<>>) \o body
    IN  IF out = <<>> THEN <<".">> ELSE out

normpath(path) ==
    IF platform = "win32"
    THEN NormWith([i \in 1..Len(path) |-> IF path[i] = "/" THEN BSL ELSE path[i]], BSL)
    ELSE NormWith(path, "/")

(***************************************************************************)
(* Subprocesses.  An outcome is the exit status with what the process      *)
(* wrote to stdout and stderr.                                             *)
(***************************************************************************)
Exit(rc, out, err) == [rc |-> rc, stdout |-> out, stderr |-> err]

\* subprocess.check_output(..., stderr=subprocess.STDOUT): the merged output,
\* or CalledProcessError on a non-zero exit status
Raises(o) == o.rc # 0

check_output_merged(o) == o.stdout \o o.stderr

\* subprocess.check_output(...) without stderr redirection
check_output(o) == o.stdout

\* subprocess.getoutput(cmd): the merged output without one trailing newline,
\* whatever the exit status
getoutput(o) ==
    LET data == o.stdout \o o.stderr
    IN  IF data # <<>> /\ data[Len(data)] = NL THEN Upto(data, Len(data) - 1) ELSE data

\* subprocess.Popen(..., stdout=PIPE, stderr=PIPE).communicate()[0]
communicate0(o) == o.stdout

(***************************************************************************)
(* verify_git_repo.  sp holds the outcome of each subprocess the function  *)
(* may start and the answer of os.path.exists for the resolved remote.     *)
(* The result records the return value ("True", "False", or the exception  *)
(* that leaves the function) with the locals the comparisons read.         *)
(***************************************************************************)
VResult(r, stage, cur, exp, url) ==
    [ret |-> r, stage |-> stage, current_commit |-> cur,
     expected_tag_commit |-> exp, remote_url |-> url]

\* details.split('\n')[0].split()
FirstLineFields(details) == SplitWS(Split(details, NL)[1])

\* lines 95-100: the cygwin/msys path handed to cygpath on win32
CygpathUrl(remote_url, o) ==
    IF platform = "win32" /\ remote_url # <<>> /\ remote_url[1] = "/"
    THEN IF PY3 THEN [raised |-> FALSE, url |-> getoutput(o)]
         ELSE IF Raises(o) THEN [raised |-> TRUE, url |-> remote_url]
         ELSE [raised |-> FALSE, url |-> RStripSet(RStrip(check_output(o)), {BSL})]
    ELSE [raised |-> FALSE, url |-> remote_url]

\* lines 102-104
NormalizeIfLocal(remote_url, exists) ==
    IF exists THEN normpath(remote_url) ELSE remote_url

\* lines 108-112
UrlMatches(remote_url, git_url) == Lower(remote_url) = Lower(git_url)

\* a verification that never compares the two hashes
HashesDiffer_skipped(current_commit, expected_tag_commit) == FALSE

\* lines 74-75
HashesDiffer(current_commit, expected_tag_commit) ==
    current_commit # expected_tag_commit

verify_git_repo(git_url, expected_rev, sp) ==
    IF expected_rev = <<>> THEN VResult("False", "no_rev", <<>>, <<>>, <<>>)
    ELSE IF Raises(sp.log_cur) THEN VResult("False", "log_cur", <<>>, <<>>, <<>>)
    ELSE LET current_commit == check_output_merged(sp.log_cur) IN
    IF Raises(sp.log_rev) THEN VResult("False", "log_rev", current_commit, <<>>, <<>>)
    ELSE LET expected_tag_commit == check_output_merged(sp.log_rev) IN
    IF HashesDiffer(current_commit, expected_tag_commit)
    THEN VResult("False", "hash", current_commit, expected_tag_commit, <<>>)
    ELSE IF Raises(sp.remote_v)
    THEN VResult("False", "remote_v", current_commit, expected_tag_commit, <<>>)
    ELSE LET cache_fields == FirstLineFields(check_output_merged(sp.remote_v)) IN
    IF Len(cache_fields) < 2
    THEN VResult("IndexError", "cache_dir", current_commit, expected_tag_commit, <<>>)
    ELSE IF Raises(sp.cache_remote_v)
    THEN VResult("False", "cache_remote_v", current_commit, expected_tag_commit, <<>>)
    ELSE LET url_fields == FirstLineFields(check_output_merged(sp.cache_remote_v)) IN
    IF Len(url_fields) < 2
    THEN VResult("IndexError", "remote_url", current_commit, expected_tag_commit, <<>>)
    ELSE LET cyg == CygpathUrl(url_fields[2], sp.cygpath) IN
    IF cyg.raised
    THEN VResult("False", "cygpath", current_commit, expected_tag_commit, cyg.url)
    ELSE LET remote_url == NormalizeIfLocal(cyg.url, sp.exists) IN
    IF ~UrlMatches(remote_url, git_url)
    THEN VResult("False", "url", current_commit, expected_tag_commit, remote_url)
    ELSE VResult("True", "done", current_commit, expected_tag_commit, remote_url)

(***************************************************************************)
(* Python values and dicts.  A value carries its type; a dict is a         *)
(* function from keys (strings) to values.                                 *)
(***************************************************************************)
PyStr(s) == [t |-> "str", s |-> s, n |-> 0]

PyInt(n) == [t |-> "int", s |-> <<>>, n |-> n]

PyBool(b) == [t |-> "bool", s |-> <<>>, n |-> IF b THEN 1 ELSE 0]

DigitAtom(n) ==
    CASE n = 0 -> "0" [] n = 1 -> "1" [] n = 2 -> "2" [] n = 3 -> "3" [] n = 4 -> "4"
      [] n = 5 -> "5" [] n = 6 -> "6" [] n = 7 -> "7" [] n = 8 -> "8" [] OTHER -> "9"

RECURSIVE Digits(_)
Digits(n) ==
    IF n < 10 THEN <<DigitAtom(n)>> ELSE Digits(n \div 10) \o <<DigitAtom(n % 10)>>

\* a coercion that is left out
py_str_forgotten(x) == x

\* the builtins str() and int()
py_str(x) ==
    CASE x.t = "str" -> x
      [] x.t = "int" -> PyStr(Digits(x.n))
      [] OTHER -> PyStr(IF x.n = 1 THEN <<"True">> ELSE <<"False">>)

py_int(x) == PyInt(x.n)

\* a one-atom name
K(a) == <<a>>

EmptyDict == [k \in {} |-> PyStr(<<>>)]

\* the value of the only element of a singleton set
The(S) == CHOOSE x \in S : TRUE

\* LET x == v IN F(x), with v evaluated once
Let(v, F(_)) == The({F(x) : x \in {v}})

\* d.update(e): the dict d with the items of e put over it
Update(d, e) ==
    The({[k \in DOMAIN dd \cup DOMAIN ee |-> IF k \in DOMAIN ee THEN ee[k] ELSE dd[k]] :
            dd \in {d}, ee \in {e}})

\* dict(zip(keys, values))
DictZip(keys, values) ==
    The({[k \in {keys[i] : i \in 1..Min({Len(keys), Len(vs)})} |->
            PyStr(vs[CHOOSE i \in 1..Len(keys) : keys[i] = k])] : vs \in {values}})

(***************************************************************************)
(* get_git_info.  sp holds the outcome of `git describe --tags --long HEAD`*)
(* and of `git rev-parse HEAD`.                                            *)
(***************************************************************************)
DescribeKeys == <<K("GIT_DESCRIBE_TAG"), K("GIT_DESCRIBE_NUMBER"), K("GIT_DESCRIBE_HASH")>>

\* str.split(sep, maxsplit): at most maxsplit splits, taken from the left
RECURSIVE SplitMax(_, _, _)
SplitMax(s, sep, maxsplit) ==
    IF maxsplit = 0 \/ Positions(s, sep) = {}
    THEN <<s>>
    ELSE LET i == Min(Positions(s, sep))
         IN  <<Upto(s, i - 1)>> \o SplitMax(From(s, i + 1), sep, maxsplit - 1)

\* the describe output split from the left
DescribeParts_from_left(output) == SplitMax(output, "-", 2)

\* line 144
DescribeParts(output) == RSplit(output, "-", 2)

\* lines 144-146
DescribeDict(output) ==
    LET parts == DescribeParts(output)
    IN  IF Len(parts) = 3 THEN DictZip(DescribeKeys, parts) ELSE EmptyDict

\* lines 149-154
FullHashDict(output) == [k \in {K("GIT_FULL_HASH")} |-> PyStr(output)]

\* lines 156-158
BuildStrDict(d) ==
    IF K("GIT_DESCRIBE_NUMBER") \in DOMAIN d /\ K("GIT_DESCRIBE_HASH") \in DOMAIN d
    THEN [k \in {K("GIT_BUILD_STR")} |->
            PyStr(d[K("GIT_DESCRIBE_NUMBER")].s \o <<"_">> \o d[K("GIT_DESCRIBE_HASH")].s)]
    ELSE EmptyDict

get_git_info(sp) ==
    LET d1 == DescribeDict(Strip(communicate0(sp.describe)))
        d2 == Update(d1, FullHashDict(Strip(communicate0(sp.rev_parse))))
    IN  Update(d2, BuildStrDict(d2))

(***************************************************************************)
(* What the git subprocesses may answer.                                   *)
(***************************************************************************)
GitFailed == Exit(128, <<>>, <<"fatal", NL>>)

Silent == Exit(0, <<>>, <<>>)

LogOutcomes ==
    {GitFailed, Silent, Exit(0, <<"h1", NL>>, <<>>), Exit(0, <<"h2", NL>>, <<>>)}

RemoteListing(url) ==
    <<"origin", TAB>> \o url \o <<SP, "(fetch)", NL>>
        \o <<"origin", TAB>> \o url \o <<SP, "(push)", NL>>

Malformed == {Silent, Exit(0, <<"origin", NL>>, <<>>)}

CacheDirs == {<<"/", "c">>}

RemoteUrls ==
    {<<"u", ":", "r">>, <<"U", ":", "R">>, <<"u", ":", "o">>,
     <<"/", "r">>, <<"/", "r", "/", ".">>}

RemoteOutcomes(urls) ==
    {GitFailed} \cup Malformed \cup {Exit(0, RemoteListing(u), <<>>) : u \in urls}

CygpathOutcomes ==
    {Silent,
     Exit(1, <<>>, <<"cygpath", NL>>),
     Exit(0, <<"remote_url", NL>>, <<>>),
     Exit(0, <<"C", ":", BSL, "r", BSL, NL>>, <<>>)}

GitUrls == {<<"u", ":", "r">>, <<"/", "r">>, <<"c", ":", BSL, "r">>, <<"remote_url">>}

Revs == {<<>>, <<"HEAD">>}

World(a, b, c, d, e, x) ==
    [log_cur |-> a, log_rev |-> b, remote_v |-> c, cache_remote_v |-> d,
     cygpath |-> e, exists |-> x]

AllWorlds ==
    {World(a, b, c, d, e, x) :
        a \in LogOutcomes, b \in LogOutcomes, c \in RemoteOutcomes(CacheDirs),
        d \in RemoteOutcomes(RemoteUrls), e \in CygpathOutcomes, x \in BOOLEAN}

\* An outcome the function never reads is fixed, so that every reachable
\* combination is drawn once.
ReadsLogRev(w) == ~Raises(w.log_cur)

ReadsRemote(w) ==
    /\ ReadsLogRev(w) /\ ~Raises(w.log_rev)
    /\ check_output_merged(w.log_cur) = check_output_merged(w.log_rev)

ReadsCacheRemote(w) ==
    /\ ReadsRemote(w) /\ ~Raises(w.remote_v)
    /\ Len(FirstLineFields(check_output_merged(w.remote_v))) >= 2

ReadsUrl(w) ==
    /\ ReadsCacheRemote(w) /\ ~Raises(w.cache_remote_v)
    /\ Len(FirstLineFields(check_output_merged(w.cache_remote_v))) >= 2

ReadsCygpath(w) ==
    /\ ReadsUrl(w) /\ platform = "win32"
    /\ FirstLineFields(check_output_merged(w.cache_remote_v))[2][1] = "/"

Canonical(w) ==
    /\ ReadsLogRev(w) \/ w.log_rev = Silent
    /\ ReadsRemote(w) \/ w.remote_v = Silent
    /\ ReadsCacheRemote(w) \/ w.cache_remote_v = Silent
    /\ ReadsCygpath(w) \/ w.cygpath = Silent
    /\ ReadsUrl(w) \/ w.exists = FALSE

VerifyWorlds == {w \in AllWorlds : Canonical(w)}

\* outputs of git describe: up to MaxDescribeLen atoms, then the newline

RECURSIVE SeqsUpTo(_, _)
SeqsUpTo(S, n) ==
    IF n = 0 THEN {<<>>}
    ELSE LET shorter == SeqsUpTo(S, n - 1)
         IN  shorter \cup {Append(s, a) : s \in shorter, a \in S}

DescribeOutcomes ==
    {GitFailed} \cup {Exit(0, s \o <<NL>>, <<>>) : s \in SeqsUpTo({"v", "-"}, MaxDescribeLen)}

RevParseOutcomes == {GitFailed, Silent, Exit(0, <<"h1", NL>>, <<>>)}

InfoWorlds == {[describe |-> a, rev_parse |-> b] : a \in DescribeOutcomes, b \in RevParseOutcomes}

(***************************************************************************)
(* The collaborators of get_dict: os.path.join, os.getenv, the build       *)
(* configuration (conda_build.config, conda.config), the source location   *)
(* and the interpreter.                                                    *)
(***************************************************************************)
IsWin == platform = "win32"

Sep == IF IsWin THEN BSL ELSE "/"

HasDrive(p) == Len(p) >= 2 /\ p[2] = ":"

\* os.path.join(a, b)
join(a, b) ==
    IF IsWin
    THEN IF HasDrive(b) THEN b
         ELSE IF b # <<>> /\ b[1] \in {BSL, "/"}
         THEN (IF HasDrive(a) THEN Upto(a, 2) ELSE <<>>) \o b
         ELSE IF a = <<>> \/ a[Len(a)] \in {BSL, "/", ":"} THEN a \o b
         ELSE a \o <<BSL>> \o b
    ELSE IF b # <<>> /\ b[1] = "/" THEN b
         ELSE IF a = <<>> \/ a[Len(a)] = "/" THEN a \o b
         ELSE a \o <<"/">> \o b

Root(name) == IF IsWin THEN <<"C", ":", BSL, name>> ELSE <<"/", name>>

\* os.getenv(name, default)
getenv(name, default) == IF name \in DOMAIN environ THEN environ[name] ELSE default

build_prefix == Root("bld")

sys_prefix == Root("conda")

sys_executable == join(sys_prefix, IF IsWin THEN <<"python.exe">> ELSE <<"bin", "/", "python">>)

build_python == join(build_prefix, IF IsWin THEN <<"python.exe">> ELSE <<"bin", "/", "python">>)

build_lua_path == join(build_prefix, IF IsWin THEN <<"lua.exe">> ELSE <<"bin", "/", "lua">>)

source_get_dir == Root("work")

subdir ==
    (IF IsWin THEN <<"win">> ELSE IF platform = "darwin" THEN <<"osx">> ELSE <<"linux">>)
        \o <<"-">> \o Digits(bits)

CONDA_PY == IF PY3 THEN 35 ELSE 27

PY3K == IF CONDA_PY >= 30 THEN 1 ELSE 0

CONDA_PERL == <<"5", ".", "18", ".", "2">>

CONDA_LUA == <<"5", ".", "2">>

\* one atom per character of a decimal numeral
Chars(n) == [i \in 1..Len(Digits(n)) |-> <<Digits(n)[i]>>]

(***************************************************************************)
(* Version helpers, lines 22-54.                                           *)
(***************************************************************************)
get_perl_ver == py_str(PyStr(CONDA_PERL)).s

get_lua_ver == py_str(PyStr(CONDA_LUA)).s

\* '.'.join(str(config.CONDA_PY))
get_py_ver == Join(Chars(CONDA_PY), ".")

get_npy_ver(cfg) ==
    IF cfg.CONDA_NPY # 0
    THEN LET conda_npy == Digits(cfg.CONDA_NPY)
         IN  <<conda_npy[1], ".">> \o Tail(conda_npy)
    ELSE <<>>

get_stdlib_dir ==
    join(build_prefix,
         IF IsWin THEN <<"Lib">> ELSE <<"lib", "/", "python">> \o get_py_ver)

get_lua_include_dir == join(build_prefix, <<"include">>)

get_sp_dir == join(get_stdlib_dir, <<"site-packages">>)

(***************************************************************************)
(* Stage 1 and 2: conda_build_vars, python_vars, perl_vars, lua_vars.      *)
(***************************************************************************)
\* a dict literal: keys[i] maps to values[i]
Dict(items) ==
    The({[k \in {its[i][1] : i \in 1..Len(its)} |->
            its[Max({i \in 1..Len(its) : its[i][1] = k})][2]] : its \in {items}})

conda_build_vars(prefix, dirty) ==
    Dict(<< <<K("CONDA_BUILD"), PyStr(<<"1">>)>>,
            <<K("PYTHONNOUSERSITE"), PyStr(<<"1">>)>>,
            <<K("CONDA_DEFAULT_ENV"), PyStr(build_prefix)>>,
            <<K("ARCH"), py_str(PyInt(bits))>>,
            <<K("PREFIX"), PyStr(prefix)>>,
            <<K("SYS_PREFIX"), PyStr(sys_prefix)>>,
            <<K("SYS_PYTHON"), PyStr(sys_executable)>>,
            <<K("SUBDIR"), PyStr(subdir)>>,
            <<K("SRC_DIR"), PyStr(source_get_dir)>>,
            <<K("HTTPS_PROXY"), PyStr(getenv(K("HTTPS_PROXY"), <<>>))>>,
            <<K("HTTP_PROXY"), PyStr(getenv(K("HTTP_PROXY"), <<>>))>>,
            <<K("DIRTY"), PyStr(IF dirty THEN <<"1">> ELSE <<>>)>> >>)

python_vars(cfg) ==
    LET base == Dict(<< <<K("PYTHON"), PyStr(build_python)>>,
                        <<K("PY3K"), py_str(PyInt(PY3K))>>,
                        <<K("STDLIB_DIR"), PyStr(get_stdlib_dir)>>,
                        <<K("SP_DIR"), PyStr(get_sp_dir)>>,
                        <<K("PY_VER"), PyStr(get_py_ver)>>,
                        <<K("CONDA_PY"), py_str(PyInt(CONDA_PY))>> >>)
    IN  IF get_npy_ver(cfg) # <<>>
        THEN Update(base, Dict(<< <<K("NPY_VER"), PyStr(get_npy_ver(cfg))>>,
                                  <<K("CONDA_NPY"), py_str(PyInt(cfg.CONDA_NPY))>> >>))
        ELSE base

perl_vars == Dict(<< <<K("PERL_VER"), PyStr(get_perl_ver)>> >>)

lua_vars(cfg) ==
    IF cfg.build_lua # <<>>
    THEN Dict(<< <<K("LUA"), PyStr(cfg.build_lua)>>,
                 <<K("LUA_INCLUDE_DIR"), PyStr(get_lua_include_dir)>>,
                 <<K("LUA_VER"), PyStr(get_lua_ver)>> >>)
    ELSE EmptyDict

(***************************************************************************)
(* Stage 3: meta_vars.  meta is the recipe metadata; mw holds what the     *)
(* file system and the subprocesses answer during the call.  The result    *)
(* is the exception that leaves the function ("none" when it returns),     *)
(* the dict, and what verify_git_repo returned ("skipped" when not called).*)
(***************************************************************************)
MResult(exc, d, x) == [exc |-> exc, d |-> d, x |-> x]

\* lines 242-250
ScriptEnvVars(meta) ==
    [k \in {v \in meta.script_env : v \in DOMAIN environ} |-> PyStr(environ[k])]

\* lines 280-284
PkgVars(meta) ==
    Dict(<< <<K("PKG_NAME"), PyStr(meta.name)>>,
            <<K("PKG_VERSION"), PyStr(meta.version)>>,
            <<K("PKG_BUILDNUM"), py_str(PyInt(meta.build_number))>>,
            <<K("PKG_BUILD_STRING"), py_str(PyStr(meta.build_id))>>,
            <<K("RECIPE_DIR"), PyStr(meta.path)>> >>)

\* lines 260-268: a git_url that names an existing path
LocalGitUrl(meta, mw) ==
    IF mw.url_exists
    THEN LET abs == normpath(join(meta.path, meta.git_url))
         IN  IF IsWin
             THEN IF PY3 THEN [raised |-> FALSE, url |-> getoutput(mw.cygpath)]
                  ELSE IF Raises(mw.cygpath) THEN [raised |-> TRUE, url |-> abs]
                  ELSE [raised |-> FALSE,
                        url |-> RStripSet(RStrip(check_output(mw.cygpath)), {BSL})]
             ELSE [raised |-> FALSE, url |-> abs]
    ELSE [raised |-> FALSE, url |-> meta.git_url]

\* an extraction that does not look at the verification
ExtractsGitInfo_always(x, meta) == TRUE

\* line 277
ExtractsGitInfo(x, meta) == x = "True" \/ meta.source_path # <<>>

meta_vars(meta, mw) ==
    Let(ScriptEnvVars(meta), LAMBDA d0 :
    IF ~mw.git_found THEN MResult("none", Update(d0, PkgVars(meta)), "skipped")
    ELSE IF ~meta.has_git_url THEN MResult("TypeError", d0, "skipped")
    ELSE Let(LocalGitUrl(meta, mw), LAMBDA local :
    IF local.raised THEN MResult("CalledProcessError", d0, "skipped")
    ELSE Let(IF local.url # <<>>
             THEN verify_git_repo(local.url, meta.git_rev, mw.verify).ret
             ELSE "skipped", LAMBDA v :
    Let(IF v = "skipped" THEN "False" ELSE v, LAMBDA x :
    IF x = "IndexError" THEN MResult("IndexError", d0, v)
    ELSE IF ExtractsGitInfo(x, meta)
    THEN MResult("none", Update(Update(d0, get_git_info(mw.info)), PkgVars(meta)), v)
    ELSE MResult("none", Update(d0, PkgVars(meta)), v)))))

(***************************************************************************)
(* Stage 4: system_vars with get_cpu_count, prepend_bin_path and the       *)
(* platform tables.  compiler_vars is the defaultdict(text_type) that      *)
(* osx_vars and linux_vars fill.                                           *)
(***************************************************************************)
\* lines 288-299
get_cpu_count(cfg) ==
    IF platform = "darwin"
    THEN PyStr(Strip(communicate0(cfg.sysctl)))
    ELSE IF cfg.cpu_count > 0 THEN py_str(PyInt(cfg.cpu_count))
    ELSE PyStr(<<"1">>)

\* conda_build.scripts.prepend_bin_path
prepend_bin_path(d, prefix) ==
    LET pathsep == IF IsWin THEN ";" ELSE ":"
        bin     == join(prefix, IF IsWin THEN <<"Scripts">> ELSE <<"bin">>)
        p1      == bin \o <<pathsep>> \o d[K("PATH")].s
        p2      == IF IsWin
                   THEN join(join(prefix, <<"Library">>), <<"bin">>) \o <<pathsep>> \o p1
                   ELSE p1
    IN  Update(d, Dict(<< <<K("PATH"), PyStr(p2)>> >>))

\* lines 302-313
windows_vars(prefix) ==
    LET library_prefix == join(prefix, <<"Library">>)
        parts == Split(prefix, ":")
        drive == parts[1]
        tail  == parts[2]
    IN  Dict(<< <<K("SCRIPTS"), PyStr(join(prefix, <<"Scripts">>))>>,
                <<K("LIBRARY_PREFIX"), PyStr(library_prefix)>>,
                <<K("LIBRARY_BIN"), PyStr(join(library_prefix, <<"bin">>))>>,
                <<K("LIBRARY_INC"), PyStr(join(library_prefix, <<"include">>))>>,
                <<K("LIBRARY_LIB"), PyStr(join(library_prefix, <<"lib">>))>>,
                <<K("R"), PyStr(join(join(prefix, <<"Scripts">>), <<"R.exe">>))>>,
                <<K("CYGWIN_PREFIX"),
                  PyStr(<<"/", "cygdrive", "/">> \o Lower(drive)
                        \o [i \in 1..Len(tail) |-> IF tail[i] = BSL THEN "/" ELSE tail[i]])>> >>)

\* lines 316-322
unix_vars(prefix) ==
    Dict(<< <<K("HOME"), PyStr(getenv(K("HOME"), <<"UNKNOWN">>))>>,
            <<K("PKG_CONFIG_PATH"), PyStr(join(join(prefix, <<"lib">>), <<"pkgconfig">>))>>,
            <<K("CMAKE_GENERATOR"), PyStr(<<"Unix", SP, "Makefiles">>)>>,
            <<K("R"), PyStr(join(join(prefix, <<"bin">>), <<"R">>))>> >>)

\* compiler_vars[key] += s on a defaultdict(text_type)
AddTo(compiler_vars, key, s) ==
    Update(compiler_vars,
           Dict(<< <<key, PyStr((IF key \in DOMAIN compiler_vars
                                 THEN compiler_vars[key].s ELSE <<>>) \o s)>> >>))

\* lines 325-336: the returned dict and the accumulator as osx_vars leaves it
osx_vars(compiler_vars) ==
    LET OSX_ARCH == IF bits = 32 THEN <<"i386">> ELSE <<"x86_64">>
        flag == <<SP, "-arch", SP>> \o OSX_ARCH
    IN  [d |-> Dict(<< <<K("OSX_ARCH"), PyStr(OSX_ARCH)>>,
                       <<K("MACOSX_DEPLOYMENT_TARGET"), PyStr(<<"10.6">>)>> >>),
         compiler_vars |->
            AddTo(AddTo(AddTo(compiler_vars, K("CFLAGS"), flag), K("CXXFLAGS"), flag),
                  K("LDFLAGS"), flag)]

\* lines 339-344
linux_vars(compiler_vars, prefix) ==
    LET c1 == Update(compiler_vars,
                     Dict(<< <<K("LD_RUN_PATH"), PyStr(prefix \o <<"/", "lib">>)>> >>))
    IN  [d |-> EmptyDict,
         compiler_vars |->
            IF bits = 32
            THEN AddTo(AddTo(c1, K("CFLAGS"), <<SP, "-m32">>), K("CXXFLAGS"), <<SP, "-m32">>)
            ELSE c1]

\* lines 370-373: one key of compiler_vars merged with what env_dict holds
MergeFlag(flag, existing) == PyStr(flag.s \o existing.s)

\* lines 371-373
MergeCompilerVars(compiler_vars, env_dict) ==
    Let(env_dict, LAMBDA e :
        [k \in DOMAIN compiler_vars |->
            IF k \in DOMAIN e THEN MergeFlag(compiler_vars[k], e[k])
            ELSE compiler_vars[k]])

\* lines 365-368
PlatformVars(prefix) ==
    IF platform = "darwin" THEN osx_vars(EmptyDict)
    ELSE IF platform = "linux" THEN linux_vars(EmptyDict, prefix)
    ELSE [d |-> EmptyDict, compiler_vars |-> EmptyDict]

SResult(exc, d, cv) == [exc |-> exc, d |-> d, compiler_vars |-> cv]

system_vars(env_dict, prefix, cfg) ==
    LET d0 == IF K("MAKEFLAGS") \in DOMAIN environ
              THEN Dict(<< <<K("MAKEFLAGS"), PyStr(environ[K("MAKEFLAGS")])>> >>)
              ELSE EmptyDict
        d1 == Update(d0, Dict(<< <<K("CPU_COUNT"), get_cpu_count(cfg)>> >>))
        d2 == IF K("LANG") \in DOMAIN environ
              THEN Update(d1, Dict(<< <<K("LANG"), PyStr(environ[K("LANG")])>> >>))
              ELSE d1
    IN
    IF K("PATH") \notin DOMAIN environ THEN SResult("KeyError", d2, EmptyDict)
    ELSE LET d3 == Update(d2, Dict(<< <<K("PATH"), PyStr(environ[K("PATH")])>> >>))
             d4 == prepend_bin_path(d3, prefix)
         IN
    IF IsWin /\ Len(Split(prefix, ":")) # 2 THEN SResult("ValueError", d4, EmptyDict)
    ELSE LET d5 == Update(d4, IF IsWin THEN windows_vars(prefix) ELSE unix_vars(prefix))
             pv == PlatformVars(prefix)
             d6 == Update(d5, pv.d)
         IN  SResult("none",
                     Update(d6, MergeCompilerVars(pv.compiler_vars, env_dict)),
                     pv.compiler_vars)

(***************************************************************************)
(* Stage 5 and get_dict.  The result keeps each stage's dict next to the   *)
(* returned one.                                                           *)
(***************************************************************************)
\* lines 182-183
FeatureVars(feature_list) ==
    Dict([i \in 1..Len(feature_list) |->
            <<Upper(feature_list[i][1]), py_str(py_int(PyBool(feature_list[i][2])))>>])

\* the metadata stage folded in after the system stage
Fold_meta_last(stages) ==
    Let(stages, LAMBDA st :
        Update(Update(Update(Update(st[1], st[2]), st[4]), st[3]), st[5]))

\* d.update(stage) for the stages in the order of lines 168-183
Fold(stages) ==
    Let(stages, LAMBDA st :
        Update(Update(Update(Update(st[1], st[2]), st[3]), st[4]), st[5]))

GResult(exc, d, base, lang, meta, sys, feat) ==
    [exc |-> exc, d |-> d, base |-> base, lang |-> lang, meta |-> meta,
     sys |-> sys, feat |-> feat]

NoStage == SResult("none", EmptyDict, EmptyDict)

get_dict(m, prefix_arg, dirty, cfg, mw) ==
    LET prefix == IF prefix_arg = <<>> THEN build_prefix ELSE prefix_arg IN
    Let(conda_build_vars(prefix, dirty), LAMBDA base :
    Let(Update(Update(python_vars(cfg), perl_vars), lua_vars(cfg)), LAMBDA lang :
    Let(IF m.given THEN meta_vars(m, mw) ELSE MResult("none", EmptyDict, "skipped"),
        LAMBDA meta :
    Let(FeatureVars(cfg.feature_list), LAMBDA feat :
        IF meta.exc # "none"
        THEN GResult(meta.exc, EmptyDict, base, lang, meta, NoStage, feat)
        ELSE Let(system_vars(Update(Update(base, lang), meta.d), prefix, cfg), LAMBDA sys :
                 IF sys.exc # "none"
                 THEN GResult(sys.exc, EmptyDict, base, lang, meta, sys, feat)
                 ELSE GResult("none", Fold(<<base, lang, meta.d, sys.d, feat>>),
                              base, lang, meta, sys, feat))))))

(***************************************************************************)
(* The activation diff, lines 380-441.  The process environment and the    *)
(* parsed dump map names to strings.                                       *)
(***************************************************************************)
CR == "cr"

\* a diff that keeps every entry of d2
_dict_diff_unfiltered(d1, d2) == d2

_dict_diff(d1, d2) ==
    LET both == DOMAIN d1 \cap DOMAIN d2
        diff == [k \in {k \in both : d1[k] # d2[k]} |-> d2[k]]
    IN  Update(diff, [k \in DOMAIN d2 \ both |-> d2[k]])

\* line 395: the name and the value taken from one line
ParsedName(var) == Strip(Split(var, "=")[1])

ParsedValue(var) == Strip(Split(var, "=")[2])

\* lines 395-396: the dict comprehension, a later line replacing an earlier one
RECURSIVE ParseLines(_, _)
ParseLines(lines, acc) ==
    IF lines = <<>> THEN acc
    ELSE LET var == Head(lines)
         IN  IF Positions(var, "=") # {}
             THEN ParseLines(Tail(lines),
                             Update(acc, [k \in {ParsedName(var)} |-> ParsedValue(var)]))
             ELSE ParseLines(Tail(lines), acc)

\* lines 404-405
ApplyToEnviron(env, modified_environ) == Update(env, modified_environ)

_set_environ_from_subprocess_values(text) ==
    LET start_environ == environ
        modified_environ == ParseLines(Split(text, NL), <<>>)
    IN  [exc |-> "none", vars |-> text,
         diff |-> _dict_diff(start_environ, modified_environ),
         modified_environ |-> modified_environ,
         environ |-> ApplyToEnviron(start_environ, modified_environ)]

\* str.replace("\r\n", "\n")
RECURSIVE ReplaceCRLF(_)
ReplaceCRLF(s) ==
    IF s = <<>> THEN <<>>
    ELSE IF Len(s) >= 2 /\ s[1] = CR /\ s[2] = NL THEN <<NL>> \o ReplaceCRLF(From(s, 3))
    ELSE <<s[1]>> \o ReplaceCRLF(Tail(s))

\* o is the outcome of the shell that runs the script and dumps its environment
activate_or_deactivate_env(o) ==
    IF IsWin /\ PY3
    THEN _set_environ_from_subprocess_values(ReplaceCRLF(getoutput(o)))
    ELSE IF Raises(o)
    THEN [exc |-> "CalledProcessError", vars |-> <<>>, diff |-> <<>>,
          modified_environ |-> <<>>, environ |-> environ]
    ELSE IF IsWin
    THEN _set_environ_from_subprocess_values(ReplaceCRLF(check_output(o)))
    ELSE _set_environ_from_subprocess_values(check_output(o))

(***************************************************************************)
(* Inputs of the calls.                                                    *)
(***************************************************************************)
Env(items) == [k \in {items[i][1] : i \in 1..Len(items)} |->
                 items[CHOOSE i \in 1..Len(items) : items[i][1] = k][2]]

StartEnvirons ==
    {Env(<< <<K("PATH"), <<"/", "usr", "/", "bin">> >>,
            <<K("HOME"), <<"/", "home">> >>,
            <<K("FOO"), <<"a">> >> >>),
     Env(<< <<K("PATH"), <<"/", "bin">> >>,
            <<K("CFLAGS"), <<"-O2">> >>,
            <<K("LDFLAGS"), <<"-L", "/", "x">> >>,
            <<K("LD_RUN_PATH"), <<"/", "x", "/", "lib">> >>,
            <<K("MAKEFLAGS"), <<"-j2">> >>,
            <<K("LANG"), <<"C">> >>,
            <<K("HTTPS_PROXY"), <<"proxy">> >>,
            <<K("DEBUG"), <<"yes">> >>,
            <<K("GIT_FULL_HASH"), <<"h0">> >> >>)}

ScriptEnvs ==
    {{},
     {K("CFLAGS"), K("LDFLAGS"), K("LD_RUN_PATH")},
     {K("PATH"), K("HOME"), K("DEBUG")},
     {K("GIT_FULL_HASH")},
     {K("UNDEFINED")}}

Meta(given, script_env, has_git_url, git_url, source_path, build_number) ==
    [given |-> given, script_env |-> script_env, has_git_url |-> has_git_url,
     git_url |-> git_url, git_rev |-> <<"HEAD">>, source_path |-> source_path,
     name |-> <<"pkg">>, version |-> <<"1", ".", "0">>, build_number |-> build_number,
     build_id |-> <<"py">> \o Digits(CONDA_PY) \o <<"_">> \o Digits(build_number),
     path |-> Root("recipe")]

NoMeta == Meta(FALSE, {}, FALSE, <<>>, <<>>, 0)

Metas ==
    {Meta(TRUE, e, g[1], g[2], p, b) :
        e \in ScriptEnvs,
        g \in {<<FALSE, <<>> >>, <<TRUE, <<>> >>, <<TRUE, <<"u", ":", "r">> >>},
        p \in {<<>>, <<"..", "/", "src">>},
        b \in 0..MaxBuildNumber}

DefaultWorld ==
    World(Exit(0, <<"h2", NL>>, <<>>), Exit(0, <<"h1", NL>>, <<>>), Silent, Silent, Silent, FALSE)

DefaultInfo == [describe |-> GitFailed, rev_parse |-> GitFailed]

MetaVerifyWorlds ==
    {w \in {World(a, b, c, d, Silent, FALSE) :
                a \in {Exit(0, <<"h1", NL>>, <<>>), Exit(0, <<"h2", NL>>, <<>>)},
                b \in {Exit(0, <<"h1", NL>>, <<>>)},
                c \in {Silent} \cup {Exit(0, RemoteListing(u), <<>>) : u \in CacheDirs},
                d \in {Silent}
                      \cup {Exit(0, RemoteListing(u), <<>>) :
                                u \in {<<"U", ":", "R">>, <<"u", ":", "o">>}}} :
        Canonical(w)}

MetaInfoWorlds ==
    {DefaultInfo,
     [describe |-> GitFailed, rev_parse |-> Exit(0, <<"h1", NL>>, <<>>)],
     [describe |-> Exit(0, <<"v", "-", "1", "-", "4", "-", "g", NL>>, <<>>),
      rev_parse |-> Exit(0, <<"h1", NL>>, <<>>)]}

MetaWorld(git_found, url_exists, cygpath, verify, info) ==
    [git_found |-> git_found, url_exists |-> url_exists, cygpath |-> cygpath,
     verify |-> verify, info |-> info]

AllMetaWorlds ==
    {MetaWorld(f, x, c, v, i) :
        f \in BOOLEAN, x \in BOOLEAN, c \in {Silent, Exit(1, <<>>, <<"cygpath", NL>>)},
        v \in MetaVerifyWorlds \cup {DefaultWorld}, i \in MetaInfoWorlds}

\* What meta_vars does not ask for is fixed.
AsksUrlExists(m, w) == m.given /\ w.git_found /\ m.has_git_url /\ m.git_url # <<>>

AsksCygpath(m, w) == AsksUrlExists(m, w) /\ w.url_exists /\ IsWin

AsksVerify(m, w) ==
    /\ m.given /\ w.git_found /\ m.has_git_url
    /\ Let(LocalGitUrl(m, w), LAMBDA local : ~local.raised /\ local.url # <<>>)

AsksInfo(m, w) ==
    /\ m.given /\ w.git_found
    /\ Let(meta_vars(m, w), LAMBDA r : r.exc = "none" /\ ExtractsGitInfo(r.x, m))

CanonicalMeta(m, w) ==
    /\ m.given \/ ~w.git_found
    /\ AsksUrlExists(m, w) \/ ~w.url_exists
    /\ AsksCygpath(m, w) \/ w.cygpath = Silent
    /\ AsksVerify(m, w) \/ w.verify = DefaultWorld
    /\ AsksInfo(m, w) \/ w.info = DefaultInfo

Host(CONDA_NPY, build_lua, feature_list, cpu_count) ==
    [CONDA_NPY |-> CONDA_NPY, build_lua |-> build_lua, feature_list |-> feature_list,
     cpu_count |-> cpu_count,
     sysctl |-> IF cpu_count > 0 THEN Exit(0, Digits(cpu_count) \o <<NL>>, <<>>)
                ELSE Exit(1, <<>>, <<>>)]

\* prefix, dirty and the configuration, which no stage combines, vary together
Args(prefix, dirty, cfg) == [prefix |-> prefix, dirty |-> dirty, cfg |-> cfg]

GetDictArgs ==
    {Args(<<>>, FALSE, Host(0, <<>>, <<>>, 0)),
     Args(Root("opt"), TRUE,
          Host(110, build_lua_path, << <<K("debug"), TRUE>>, <<K("nomkl"), FALSE>> >>, 4)),
     Args(<<>>, TRUE, Host(17, <<>>, << <<K("debug"), FALSE>> >>, 16))}

DumpLines ==
    {<<"FOO", "=", "a">>,
     <<"FOO", "=", "b">>,
     <<"BAZ", "=", SP, "q">>,
     <<"BAZ", "=", "a", "=", "b">>,
     <<"done">>}

Eol == IF IsWin THEN <<CR, NL>> ELSE <<NL>>

RECURSIVE DumpText(_)
DumpText(lines) ==
    IF lines = <<>> THEN <<>> ELSE Head(lines) \o Eol \o DumpText(Tail(lines))

ShellOutcomes ==
    {Exit(1, <<>>, <<"error", Eol[1]>>)}
        \cup {Exit(0, DumpText(lines), <<>>) : lines \in SeqsUpTo(DumpLines, MaxLines)}

(***************************************************************************)
(* The state machine: the process environment, and one call at a time of  *)
(* the module's functions.  pc names the function that has just returned, *)
(* call its arguments and ret its result, until the caller takes it.      *)
(***************************************************************************)
NoCall == [op |-> "none"]

Init ==
    /\ platform \in {"linux", "darwin", "win32"}
    /\ bits \in {32, 64}
    /\ PY3 \in BOOLEAN
    /\ environ \in StartEnvirons
    /\ pc = "idle"
    /\ call = NoCall
    /\ ret = NoCall

VerifyGitRepo ==
    /\ pc = "idle"
    /\ \E git_url \in GitUrls, expected_rev \in Revs, sp \in VerifyWorlds :
        /\ call' = [git_url |-> git_url, expected_rev |-> expected_rev, sp |-> sp]
        /\ ret' = verify_git_repo(git_url, expected_rev, sp)
    /\ pc' = "verify_git_repo"
    /\ UNCHANGED <<platform, bits, PY3, environ>>

GetGitInfo ==
    /\ pc = "idle"
    /\ \E sp \in InfoWorlds :
        /\ call' = [sp |-> sp]
        /\ ret' = get_git_info(sp)
    /\ pc' = "get_git_info"
    /\ UNCHANGED <<platform, bits, PY3, environ>>

GetDict ==
    /\ pc = "idle"
    /\ \E m \in Metas \cup {NoMeta} :
        \E mw \in {w \in AllMetaWorlds : CanonicalMeta(m, w)}, a \in GetDictArgs :
            /\ call' = [m |-> m, prefix |-> a.prefix, dirty |-> a.dirty, cfg |-> a.cfg,
                        mw |-> mw]
            /\ ret' = get_dict(m, a.prefix, a.dirty, a.cfg, mw)
    /\ pc' = "get_dict"
    /\ UNCHANGED <<platform, bits, PY3, environ>>

ActivateOrDeactivateEnv ==
    /\ pc = "idle"
    /\ \E action \in {"activate", "deactivate"}, o \in ShellOutcomes :
        LET r == activate_or_deactivate_env(o)
        IN  /\ call' = [action |-> action, o |-> o, start_environ |-> environ]
            /\ ret' = r
            /\ environ' = r.environ
    /\ pc' = "activate_or_deactivate_env"
    /\ UNCHANGED <<platform, bits, PY3>>

Return ==
    /\ pc # "idle"
    /\ pc' = "idle"
    /\ call' = NoCall
    /\ ret' = NoCall
    /\ UNCHANGED <<platform, bits, PY3, environ>>

NextGit == VerifyGitRepo \/ GetGitInfo \/ Return

NextEnv == GetDict \/ Return

NextAct == ActivateOrDeactivateEnv \/ Return

Next == VerifyGitRepo \/ GetGitInfo \/ GetDict \/ ActivateOrDeactivateEnv \/ Return

\* the git functions
SpecGit == Init /\ [][NextGit]_vars

\* the layered environment
SpecEnv == Init /\ [][NextEnv]_vars

\* the activation diff
SpecAct == Init /\ [][NextAct]_vars

Spec == Init /\ [][Next]_vars

(***************************************************************************)
(* The claims.                                                             *)
(***************************************************************************)
Merged(o) == o.stdout \o o.stderr

GitKeys ==
    {K("GIT_DESCRIBE_TAG"), K("GIT_DESCRIBE_NUMBER"), K("GIT_DESCRIBE_HASH"),
     K("GIT_FULL_HASH")}

C2_NeverRaises ==
    pc = "verify_git_repo" => ret.ret \in {"True", "False"}

\* C3 as stated: whenever verify_git_repo returned False, neither the map of
\* meta_vars nor the map of get_dict holds one of the git keys.
C3_FalseVerificationLeavesNoGitKey ==
    (pc = "get_dict" /\ ret.exc = "none" /\ ret.meta.x = "False") =>
        /\ GitKeys \cap DOMAIN ret.meta.d = {}
        /\ GitKeys \cap DOMAIN ret.d = {}

\* C3 as amended: whenever verify_git_repo returned False and the recipe
\* declares no source/path, the maps of meta_vars and get_dict hold a git key
\* only if build/script_env names it and the calling environment defines it,
\* and then with the value the calling environment gives it.
C3_GatesExtractionWithoutPathSource ==
    (pc = "get_dict" /\ ret.exc = "none" /\ ret.meta.x = "False"
        /\ call.m.source_path = <<>>) =>
        \A k \in GitKeys :
            /\ k \in DOMAIN ret.meta.d <=> (k \in call.m.script_env /\ k \in DOMAIN environ)
            /\ k \in DOMAIN ret.d <=> k \in DOMAIN ret.meta.d
            /\ k \in DOMAIN ret.d =>
                    ret.d[k] = PyStr(environ[k]) /\ ret.meta.d[k] = PyStr(environ[k])

\* C3 happens: verification fails for a recipe without source/path and the
\* returned map holds no git key.
C3_Witness ==
    /\ pc = "get_dict" /\ ret.exc = "none" /\ ret.meta.x = "False"
    /\ call.m.source_path = <<>>
    /\ GitKeys \cap DOMAIN ret.d = {}

\* C4: every key the compiler-flags accumulator touches and that the map of
\* the base, language and metadata stages already holds ends as the existing
\* value followed by the accumulator's contribution.
C4_FlagsFollowExistingValue ==
    (pc = "get_dict" /\ ret.exc = "none") =>
        LET env_dict == Update(Update(ret.base, ret.lang), ret.meta.d)
        IN  \A k \in DOMAIN ret.sys.compiler_vars \cap DOMAIN env_dict :
                ret.d[k].s = env_dict[k].s \o ret.sys.compiler_vars[k].s

\* C5: the returned map holds exactly the keys of the five stages, and every
\* key the accumulator does not touch has the value of the latest stage (base,
\* language, metadata, system, features) that produces it; a feature key is
\* "1" or "0".
C5_LatestStageWins ==
    (pc = "get_dict" /\ ret.exc = "none") =>
        LET stages == <<ret.base, ret.lang, ret.meta.d, ret.sys.d, ret.feat>>
            Producers(k) == {i \in 1..5 : k \in DOMAIN stages[i]}
        IN  /\ DOMAIN ret.d = UNION {DOMAIN stages[i] : i \in 1..5}
            /\ \A k \in DOMAIN ret.d \ DOMAIN ret.sys.compiler_vars :
                    ret.d[k] = stages[Max(Producers(k))][k]
            /\ \A i \in 1..Len(call.cfg.feature_list) :
                    ret.d[Upper(call.cfg.feature_list[i][1])].s
                        = (IF call.cfg.feature_list[i][2] THEN <<"1">> ELSE <<"0">>)

\* C5 happens: the recipe whitelists PATH and DEBUG, both set in the calling
\* environment, the system stage produces PATH and a feature is named debug.
C5_Witness ==
    /\ pc = "get_dict" /\ ret.exc = "none"
    /\ K("PATH") \in DOMAIN ret.meta.d /\ K("PATH") \in DOMAIN ret.sys.d
    /\ ret.meta.d[K("PATH")] # ret.sys.d[K("PATH")]
    /\ K("DEBUG") \in DOMAIN ret.meta.d /\ K("DEBUG") \in DOMAIN ret.feat
    /\ ret.meta.d[K("DEBUG")] # ret.feat[K("DEBUG")]

C7_DescribeTripleAllOrNothing ==
    pc = "get_git_info" =>
        LET output == Strip(call.sp.describe.stdout)
            present == {DescribeKeys[i] : i \in 1..3} \cap DOMAIN ret
            tag == ret[K("GIT_DESCRIBE_TAG")].s
            number == ret[K("GIT_DESCRIBE_NUMBER")].s
            hash == ret[K("GIT_DESCRIBE_HASH")].s
        IN  /\ present = {} \/ present = {DescribeKeys[i] : i \in 1..3}
            /\ present # {} <=> Cardinality(Positions(output, "-")) >= 2
            /\ present # {} =>
                    /\ tag \o <<"-">> \o number \o <<"-">> \o hash = output
                    /\ Positions(number, "-") = {} /\ Positions(hash, "-") = {}
            /\ K("GIT_BUILD_STR") \in DOMAIN ret <=> present # {}
            /\ K("GIT_BUILD_STR") \in DOMAIN ret =>
                    ret[K("GIT_BUILD_STR")].s = number \o <<"_">> \o hash

\* C7 happens: a describe output whose tag holds a "-" is parsed.
C7_Witness ==
    /\ pc = "get_git_info"
    /\ K("GIT_DESCRIBE_TAG") \in DOMAIN ret
    /\ K("GIT_BUILD_STR") \in DOMAIN ret
    /\ Positions(ret[K("GIT_DESCRIBE_TAG")].s, "-") # {}
    /\ ret[K("GIT_DESCRIBE_NUMBER")].s # <<>>

\* C8: when git rev-parse fails or prints nothing the record has no
\* GIT_FULL_HASH key, and when both subprocesses fail the record is empty.
C8_FailedRevParseLeavesNoKey ==
    pc = "get_git_info" =>
        /\ Strip(call.sp.rev_parse.stdout) = <<>> => K("GIT_FULL_HASH") \notin DOMAIN ret
        /\ (call.sp.describe.rc # 0 /\ call.sp.rev_parse.rc # 0) => DOMAIN ret = {}

C10_ValueIsTextAfterFirstEquals ==
    (pc = "activate_or_deactivate_env" /\ ret.exc = "none") =>
        LET lines == Split(ret.vars, NL)
            Name(l) == Strip(Upto(l, Min(Positions(l, "=")) - 1))
            Value(l) == Strip(From(l, Min(Positions(l, "=")) + 1))
        IN  \A i \in 1..Len(lines) :
                (/\ Positions(lines[i], "=") # {}
                 /\ \A j \in (i + 1)..Len(lines) :
                        Positions(lines[j], "=") = {} \/ Name(lines[j]) # Name(lines[i]))
                    => ret.modified_environ[Name(lines[i])] = Value(lines[i])

====
